---- MODULE Spec2Model ----
(***************************************************************************)
(* State-machine model of hmcpl.client.HMCPLClient: the session manager    *)
(* (login, cookie cache, browser-state snapshot), the two transports (the  *)
(* httpx request channel and the Playwright automation channel) and the    *)
(* resources the client acquires and releases.                             *)
(*                                                                         *)
(* Every public coroutine of the client is one action.  The origin (the    *)
(* catalog web site), the browser driver and the file system answer each   *)
(* step of a call with an outcome drawn from a small set; one outcome is   *)
(* drawn per kind of step and per call.                                    *)
(***************************************************************************)
EXTENDS Integers, Sequences, FiniteSets, TLC

VARIABLES
    headless,            \* self.headless
    cookies,             \* self.cookies: 0 is the empty dict, v > 0 a cookie set
    _http_client,        \* self._http_client: NoClient, or the cookie set it was built with
    _playwright,         \* self._playwright is not None
    _browser,            \* self._browser is not None
    _context,            \* self._context is not None
    _api_page,           \* self._api_page is not None
    page_url,            \* self._api_page.url, a sequence of path segments
    page_alert,          \* the document of self._api_page has an element that
                         \* matches ".alert-success, .success"
    STATE_FILE,          \* ~/.hmcpl_state.json
    BROWSER_STATE_FILE,  \* ~/.hmcpl_browser_state.json
    live,                \* resources acquired and not yet released, by kind
    pagesOpened,         \* pages opened in the client's browser context so far
    httpUsed,            \* the request channel was created or used by this client
    issued,              \* cookie sets the origin has issued to this client so far
    authenticated,       \* the client's latest login call returned True
    caller,              \* who drives the client: cli.run_command, or a program
                         \* that imports HMCPLClient
    phase,               \* "open" until close() has run, then "closed"
    nOps,                \* calls made on the client so far
    last                 \* what the last call did and how it ended

vars == <<headless, cookies, _http_client, _playwright, _browser, _context,
          _api_page, page_url, page_alert, STATE_FILE, BROWSER_STATE_FILE, live,
          pagesOpened, httpUsed, issued, authenticated, caller, phase, nOps,
          last>>

(***************************************************************************)
(* Bounds                                                                  *)
(***************************************************************************)
\* calls made on one client before it is closed
MaxOps == 2
\* checkouts on the account when renew_all lists them
MaxItems == 2
\* checkouts on the account in the runs that mix all the operations
FewItems == 1
\* entries on the results page of a search
MaxResults == 3
\* rows of a listing of checkouts or holds
MaxRows == 3
\* the largest count, and the largest amount of fines, an account shows
MaxCount == 1
\* elements of a document that the row selectors are run on
MaxElements == 2

\* cookie sets: 0 is the empty set, 1 the set an earlier run left in the files,
\* 2, 3, ... the sets the origin issues to this client, in order
EmptyCookies == 0
OldCookies == EmptyCookies + 1
NoClient == EmptyCookies - 1

(***************************************************************************)
(* Files                                                                   *)
(***************************************************************************)
Absent == [kind |-> "absent", ver |-> 0]
CookieFile(v) == [kind |-> "cookies", ver |-> v]
\* a file that is no JSON, or whose cookie entries lack a key: json.loads
\* raises JSONDecodeError, a lookup raises KeyError
BadJson == [kind |-> "badjson", ver |-> 0]
\* a file that is JSON of another shape (a list, a number, cookie entries
\* that are no objects): data.get or c["name"] raises AttributeError or
\* TypeError
BadShape == [kind |-> "badshape", ver |-> 0]

\* the file gives _load_cookies a non-empty cookie set
Usable(f) == f.kind = "cookies" /\ f.ver # 0

\* URLs below BASE_URL, as sequences of path segments
Blank == <<>>
HomePath == <<"MyAccount", "Home">>
CheckedOutPath == <<"MyAccount", "CheckedOut">>
HoldsPath == <<"MyAccount", "Holds">>
LoginPath == <<"MyAccount", "Login">>

\* str.startswith on segment sequences
StartsWith(url, target) ==
    /\ Len(url) >= Len(target)
    /\ \A i \in 1..Len(target) : url[i] = target[i]

(***************************************************************************)
(* The record of one call                                                  *)
(***************************************************************************)
NoTrace ==
    [op |-> "none", force |-> FALSE, outcome |-> "none", err |-> "none",
     loaded |-> FALSE, probe |-> "none", reauth |-> 0, fills |-> 0,
     submits |-> 0, loginPages |-> 0, wroteC |-> FALSE, wroteB |-> FALSE,
     launches |-> 0, httpReqs |-> 0, loads |-> 0, landed |-> "none",
     post |-> "none", hadState |-> FALSE, clicks |-> 0, posts |-> 0,
     results |-> <<>>, timeouts |-> 0, retried |-> 0, blocked |-> FALSE,
     warned |-> FALSE, ret |-> "none", channels |-> <<>>, ajax |-> "none",
     control |-> "none", listed |-> FALSE, items |-> <<>>,
     attempted |-> <<>>, banner |-> "none", found |-> 0, limit |-> 0,
     hits |-> <<>>, statusText |-> {}, path |-> "none", status |-> "none",
     indicator |-> FALSE, is_frozen |-> FALSE, shape |-> "none",
     record |-> "none", source |-> <<>>, position |-> 0, id |-> <<>>,
     summary |-> <<>>, records |-> <<>>, date |-> <<>>, navs |-> <<>>,
     shown |-> FALSE, stale |-> FALSE, usable |-> FALSE]

\* the client's state as one record, the call's record in field t
State ==
    [headless |-> headless, cookies |-> cookies, _http_client |-> _http_client,
     _playwright |-> _playwright, _browser |-> _browser, _context |-> _context,
     _api_page |-> _api_page, page_url |-> page_url, page_alert |-> page_alert,
     STATE_FILE |-> STATE_FILE, BROWSER_STATE_FILE |-> BROWSER_STATE_FILE,
     live |-> live,
     pagesOpened |-> pagesOpened, httpUsed |-> httpUsed, issued |-> issued,
     authenticated |-> authenticated, t |-> NoTrace]

Commit(s) ==
    /\ headless' = s.headless
    /\ cookies' = s.cookies
    /\ _http_client' = s._http_client
    /\ _playwright' = s._playwright
    /\ _browser' = s._browser
    /\ _context' = s._context
    /\ _api_page' = s._api_page
    /\ page_url' = s.page_url
    /\ page_alert' = s.page_alert
    /\ STATE_FILE' = s.STATE_FILE
    /\ BROWSER_STATE_FILE' = s.BROWSER_STATE_FILE
    /\ live' = s.live
    /\ pagesOpened' = s.pagesOpened
    /\ httpUsed' = s.httpUsed
    /\ issued' = s.issued
    /\ authenticated' = s.authenticated
    /\ caller' = caller
    /\ last' = s.t

\* the expression F of the value v: v is what a call returned, named once
With(v, F(_)) == F(v)

Ok(s) == [s |-> s, exc |-> "none"]
Raise(s, x) == [s |-> s, exc |-> x]
Ret(s, v) == [s |-> s, ret |-> v, exc |-> "none"]
RaiseV(s, x) == [s |-> s, ret |-> FALSE, exc |-> x]

(***************************************************************************)
(* Persistence                                                             *)
(***************************************************************************)
\* _save_cookies: STATE_FILE.write_text(json.dumps({"cookies": self.cookies}))
_save_cookies(s, e) ==
    IF e.save = "cookies_fail"
    THEN Raise(s, "error")
    ELSE Ok([s EXCEPT !.STATE_FILE = CookieFile(s.cookies), !.t.wroteC = TRUE])

\* _has_browser_state
_has_browser_state(s) == s.BROWSER_STATE_FILE.kind # "absent"

\* _save_browser_state that writes nothing
_save_browser_state_Skipped(s, e) == Ok(s)

\* _save_browser_state: the context's storage state, written if a context exists
_save_browser_state(s, e) ==
    IF ~s._context
    THEN Ok(s)
    ELSE IF e.save = "state_fail"
         THEN Raise(s, "error")
         ELSE Ok([s EXCEPT !.BROWSER_STATE_FILE = CookieFile(s.cookies),
                           !.t.wroteB = TRUE])

\* one file of _load_cookies: "set" the cookies were assigned, "ret" they are non-empty
ReadCookieFile(f) ==
    CASE f.kind = "cookies" -> [set |-> TRUE, ver |-> f.ver, exc |-> "none"]
      [] f.kind = "badjson" -> [set |-> FALSE, ver |-> 0, exc |-> "none"]
      [] f.kind = "badshape" -> [set |-> FALSE, ver |-> 0, exc |-> "error"]
      [] OTHER -> [set |-> FALSE, ver |-> 0, exc |-> "none"]

\* _load_cookies: the cookie cache first, the browser-state snapshot second
_load_cookies(s) ==
    LET a == ReadCookieFile(s.STATE_FILE)
        s1 == IF a.set THEN [s EXCEPT !.cookies = a.ver] ELSE s
        b == ReadCookieFile(s.BROWSER_STATE_FILE)
        s2 == IF b.set THEN [s1 EXCEPT !.cookies = b.ver] ELSE s1
    IN  IF a.exc # "none" THEN RaiseV(s, a.exc)
        ELSE IF a.set /\ a.ver # 0 THEN Ret(s1, TRUE)
        ELSE IF b.exc # "none" THEN RaiseV(s1, b.exc)
        ELSE IF b.set /\ b.ver # 0 THEN Ret(s2, TRUE)
        ELSE Ret(s2, FALSE)

(***************************************************************************)
(* Request channel                                                         *)
(***************************************************************************)
\* the http_client property: built once, with the cookies of that moment
http_client(s) ==
    IF s._http_client = NoClient
    THEN [s EXCEPT !._http_client = s.cookies, !.live.http = @ + 1,
                   !.httpUsed = TRUE]
    ELSE s

\* one request on the request channel
HttpRequest(s) ==
    [http_client(s) EXCEPT !.t.httpReqs = @ + 1, !.httpUsed = TRUE]

(***************************************************************************)
(* Automation channel                                                      *)
(***************************************************************************)
\* _get_browser_context without the headless-mode check of lines 121-126
_get_browser_context_NoStateCheck(s, e) ==
    IF s._context
    THEN Ok(s)
    ELSE LET s1 == [s EXCEPT !._playwright = TRUE, !.live.pw = @ + 1]
             s2 == [s1 EXCEPT !._browser = TRUE, !.live.browser = @ + 1,
                              !.t.launches = @ + 1]
             s3 == [s2 EXCEPT !._context = TRUE, !.live.context = @ + 1]
         IN  IF e.ctx = "fail" THEN Raise(s1, "error") ELSE Ok(s3)

\* _get_browser_context
_get_browser_context(s, e) ==
    IF s._context
    THEN Ok(s)
    ELSE LET s1 == [s EXCEPT !._playwright = TRUE, !.live.pw = @ + 1]
             s2 == [s1 EXCEPT !._browser = TRUE, !.live.browser = @ + 1,
                              !.t.launches = @ + 1]
             s3 == [s2 EXCEPT !._context = TRUE, !.live.context = @ + 1]
         IN  IF s.headless /\ ~_has_browser_state(s)
             THEN Raise(s1, "bootstrap_guidance")
             ELSE IF e.ctx = "fail" THEN Raise(s1, "error")
             ELSE Ok(s3)

\* context.new_page()
NewPage(s) ==
    [s EXCEPT !.live.page = @ + 1, !.pagesOpened = @ + 1]

\* _get_page
_get_page(s, e) ==
    IF s._api_page
    THEN Ok(s)
    ELSE LET c == _get_browser_context(s, e)
         IN  IF c.exc # "none" THEN c
             ELSE Ok([NewPage(c.s) EXCEPT !._api_page = TRUE, !.page_url = Blank,
                                          !.page_alert = FALSE])

\* one _navigate on the shared page: where the page was, where it was sent,
\* and the gotos made
Navigation(s, path, loads) ==
    [s EXCEPT !.t.navs = Append(@, [from |-> s.page_url, to |-> path,
                                    loads |-> loads])]

\* _navigate that loads the target wherever the page is
_navigate_AlwaysLoads(s, path, nav, e) ==
    With(_get_page(s, e), LAMBDA p :
    LET s1 == [Navigation(p.s, path, 1) EXCEPT
                   !.t.loads = @ + 1,
                   !.t.retried = IF p.s.t.timeouts > 0 THEN @ + 1 ELSE @]
    IN  IF p.exc # "none" THEN p
        ELSE IF nav = "timeout"
        THEN Raise([s1 EXCEPT !.t.timeouts = @ + 1], "error")
        ELSE Ok([s1 EXCEPT !.page_url = path, !.page_alert = FALSE]))

\* _navigate: nav is what page.goto does when it runs: "ok" or "timeout".
\* The call's record counts the gotos, those that timed out, and those made
\* after one of the call's earlier gotos had timed out.
_navigate(s, path, nav, e) ==
    With(_get_page(s, e), LAMBDA p :
    LET s1 == [Navigation(p.s, path, 1) EXCEPT
                   !.t.loads = @ + 1,
                   !.t.retried = IF p.s.t.timeouts > 0 THEN @ + 1 ELSE @]
    IN  IF p.exc # "none" THEN p
        ELSE IF StartsWith(p.s.page_url, path) THEN Ok(Navigation(p.s, path, 0))
        ELSE IF nav = "timeout"
        THEN Raise([s1 EXCEPT !.t.timeouts = @ + 1], "error")
        ELSE Ok([s1 EXCEPT !.page_url = path, !.page_alert = FALSE]))

(***************************************************************************)
(* Outcomes of the steps of a call.  One outcome is drawn per kind of step  *)
(* and per call; an outcome that no step of the call reads is left at its   *)
(* default, so that a call is not repeated for outcomes it never sees.      *)
(***************************************************************************)
\* the liveness probe: the session is accepted, refused, or the probe fails
ProbeOutcomes == {"alive", "dead", "error"}
\* launching the browser and creating its context
CtxOutcomes == {"ok", "fail"}
\* the page the login navigation lands on: the account page, a page with the
\* login form, a page with neither, or the navigation times out
LandOutcomes == {"account", "form", "noform", "timeout"}
\* the page after the form is submitted: account title, only a logout link,
\* an error banner with text, an error banner without text, none of them,
\* or the navigation after the submit fails
PostOutcomes == {"title", "logout", "banner", "empty_banner", "neither", "error"}
\* writing the two files
SaveOutcomes == {"ok", "cookies_fail", "state_fail"}

\* the elements of a set of outcomes, listed once
Enumerated(S) == {x : x \in S}

AllLoginEnvs ==
    [probe : ProbeOutcomes, ctx : CtxOutcomes, land : LandOutcomes,
     post : PostOutcomes, save : SaveOutcomes]

\* the outcomes a login call can read, by mode and by whether it probes
LoginEnvs ==
    [h \in BOOLEAN, probing \in BOOLEAN |->
        Enumerated({e \in AllLoginEnvs :
            /\ ~probing => e.probe = "dead"
            /\ ~h => e.probe # "error"
            /\ ~h => e.land \in {"form", "timeout"}
            /\ h => e.post \in {"title", "banner", "neither", "error"}
            /\ (e.probe = "alive" \/ e.ctx # "ok") =>
                   e.land = "timeout" /\ e.save = "ok"
            /\ e.land # "form" => e.post = "title"
            /\ (e.land \in {"noform", "timeout"}) => e.save = "ok"
            /\ (e.land = "form" /\ e.post \notin {"title", "logout"}) =>
                   e.save = "ok"})]

NavOfProbe(probe) == IF probe = "error" THEN "timeout" ELSE "ok"

NavOfLand(land) == IF land = "timeout" THEN "timeout" ELSE "ok"

(***************************************************************************)
(* Session manager                                                         *)
(***************************************************************************)
\* _verify_session: by the automation channel in headless mode, else by one
\* request on the request channel; every exception is a dead session
_verify_session(s, e) ==
    IF s.headless
    THEN With(_navigate(s, HomePath, NavOfProbe(e.probe), e), LAMBDA n :
             IF n.exc # "none" THEN Ret(n.s, FALSE)
             ELSE Ret(n.s, e.probe = "alive"))
    ELSE Ret(HttpRequest(s), e.probe = "alive")

\* cookies = await context.cookies(): the set the origin issued to this login
ContextCookies(s) ==
    [s EXCEPT !.cookies = OldCookies + s.issued + 1, !.issued = @ + 1]

\* the success branch shared by both login flows: take the context's cookies,
\* write the cookie cache, then write the browser-state snapshot
ExtractAndSave(s, e) ==
    With(_save_cookies(ContextCookies(s), e), LAMBDA a :
        IF a.exc # "none" THEN a ELSE _save_browser_state(a.s, e))

\* _headless_login after the two writes: True, or False if one of them raised
Saved(w) == Ret(w.s, w.exc = "none")

\* fill #username and #password, submit the form
FillAndSubmit(s) ==
    [s EXCEPT !.t.fills = @ + 1, !.t.submits = @ + 1]

\* _headless_login that enters the credentials before it looks at the title
_headless_login_FillsFirst(s, e) ==
    With(_navigate(s, HomePath, NavOfLand(e.land), e), LAMBDA n :
    LET s1 == [n.s EXCEPT !.t.landed = e.land]
        s2 == [FillAndSubmit(s1) EXCEPT !.t.post = e.post]
    IN  IF n.exc # "none" THEN Ret(n.s, FALSE)
        ELSE IF e.land = "timeout" THEN Ret(n.s, FALSE)
        ELSE IF e.land = "noform" THEN Ret(s1, FALSE)
        ELSE IF e.post = "error" THEN Ret(s2, FALSE)
        ELSE IF e.post = "title" THEN Saved(ExtractAndSave(s2, e))
        ELSE Ret(s2, FALSE))

\* _headless_login: every exception is caught and gives False
_headless_login(s, e) ==
    With(_navigate(s, HomePath, NavOfLand(e.land), e), LAMBDA n :
    LET s1 == [n.s EXCEPT !.t.landed = e.land]
        s2 == [FillAndSubmit(s1) EXCEPT !.t.post = e.post]
    IN  IF n.exc # "none" THEN Ret(n.s, FALSE)
        ELSE IF e.land = "timeout" THEN Ret(n.s, FALSE)
        ELSE IF e.land = "account" THEN Saved(ExtractAndSave(s1, e))
        ELSE IF e.land = "noform" THEN Ret(s1, FALSE)
        ELSE IF e.post = "error" THEN Ret(s2, FALSE)
        ELSE IF e.post = "title" THEN Saved(ExtractAndSave(s2, e))
        ELSE Ret(s2, FALSE))

\* the reset of the HTTP client after an interactive login
ResetHttpClient(s) ==
    IF s._http_client # NoClient
    THEN [s EXCEPT !._http_client = NoClient, !.live.http = @ - 1]
    ELSE s

\* page.close() of a page opened for one call, in the finally clause
ClosePage(s) == [s EXCEPT !.live.page = @ - 1]

\* the interactive flow with an error banner answered by False
InteractiveLogin_BannerReturnsFalse(s, e) ==
    LET c == _get_browser_context(s, e)
        s1 == [NewPage(c.s) EXCEPT !.t.loginPages = @ + 1, !.t.loads = @ + 1,
                                   !.t.landed = e.land]
        s2 == [FillAndSubmit(s1) EXCEPT !.t.post = e.post]
        w == ExtractAndSave(s2, e)
    IN  IF c.exc # "none" THEN RaiseV(c.s, c.exc)
        ELSE IF e.land # "form" THEN RaiseV(ClosePage(s1), "error")
        ELSE IF e.post = "error" THEN RaiseV(ClosePage(s2), "error")
        ELSE IF e.post \in {"title", "logout"}
             THEN IF w.exc # "none" THEN RaiseV(ClosePage(w.s), w.exc)
                  ELSE Ret(ClosePage(ResetHttpClient(w.s)), TRUE)
        ELSE Ret(ClosePage(s2), FALSE)

\* login, lines 204-285: the interactive flow on a page of its own
InteractiveLogin(s, e) ==
    LET c == _get_browser_context(s, e)
        s1 == [NewPage(c.s) EXCEPT !.t.loginPages = @ + 1, !.t.loads = @ + 1,
                                   !.t.landed = e.land]
        s2 == [FillAndSubmit(s1) EXCEPT !.t.post = e.post]
        w == ExtractAndSave(s2, e)
    IN  IF c.exc # "none" THEN RaiseV(c.s, c.exc)
        ELSE IF e.land # "form" THEN RaiseV(ClosePage(s1), "error")
        ELSE IF e.post = "error" THEN RaiseV(ClosePage(s2), "error")
        ELSE IF e.post \in {"title", "logout"}
             THEN IF w.exc # "none" THEN RaiseV(ClosePage(w.s), w.exc)
                  ELSE Ret(ClosePage(ResetHttpClient(w.s)), TRUE)
        ELSE IF e.post = "banner" THEN RaiseV(ClosePage(s2), "login_failed_banner")
        ELSE Ret(ClosePage(s2), FALSE)

\* a re-authentication attempt starts: _headless_login is called, or the
\* interactive flow is entered
Attempt(s) == [s EXCEPT !.t.reauth = @ + 1]

\* the headless flow answering a failed refresh with False
HeadlessRefresh_ReturnsFalse(s, e) ==
    IF _has_browser_state(s)
    THEN With(_headless_login(Attempt(s), e), LAMBDA r : Ret(r.s, r.ret))
    ELSE RaiseV(s, "expired_guidance")

\* login, lines 193-202: the headless flow
HeadlessRefresh(s, e) ==
    IF _has_browser_state(s)
    THEN With(_headless_login(Attempt(s), e), LAMBDA r :
             IF r.ret THEN Ret(r.s, TRUE) ELSE RaiseV(r.s, "expired_guidance"))
    ELSE RaiseV(s, "expired_guidance")

\* login, lines 187-191: the cached session
CachedSession(s, force, e) ==
    With(_load_cookies(s), LAMBDA l :
    LET s1 == [l.s EXCEPT !.t.loaded = l.ret]
    IN  IF force THEN Ret(s, FALSE)
        ELSE IF l.exc # "none" THEN l
        ELSE IF ~l.ret THEN Ret(s1, FALSE)
        ELSE With(_verify_session(s1, e), LAMBDA v :
                 Ret([v.s EXCEPT !.t.probe = IF v.ret THEN "alive" ELSE "dead"],
                     v.ret)))

\* login that goes on to the login flow whatever the probe said
login_IgnoresProbe(s, force, e) ==
    With(CachedSession(s, force, e), LAMBDA c :
        IF c.exc # "none" THEN c
        ELSE IF s.headless THEN HeadlessRefresh(c.s, e)
        ELSE InteractiveLogin(Attempt(c.s), e))

\* login
login(s, force, e) ==
    With(CachedSession(s, force, e), LAMBDA c :
        IF c.exc # "none" THEN c
        ELSE IF c.ret THEN c
        ELSE IF s.headless THEN HeadlessRefresh(c.s, e)
        ELSE InteractiveLogin(Attempt(c.s), e))

(***************************************************************************)
(* Library operations                                                      *)
(***************************************************************************)
\* a GET on the request channel: answered, or raise_for_status raises
RespOutcomes == {"ok", "error"}
\* the renewItem POST: JSON with success true or false, a status other than
\* 200 or a body that is no JSON, or the request itself raises
AjaxOutcomes == {"success", "failure", "non200", "error"}
NavOutcomes == {"ok", "timeout"}
\* the banners on the hold page after the submit step: .alert-success and
\* the like, .alert-danger and the like, both, or neither
BannerOutcomes == {"neither", "success", "error", "both"}

\* the checkouts renew_all finds, as their can_renew flags in source order
RECURSIVE FlagSeqs(_)
FlagSeqs(n) ==
    IF n = 0 THEN {<<>>}
    ELSE LET shorter == FlagSeqs(n - 1)
         IN  shorter \cup {Append(q, b) : q \in {x \in shorter : Len(x) = n - 1},
                                          b \in BOOLEAN}

\* the outcomes of one call, each drawn from the set given for it
Outcomes(ctx, nav, resp, ajax, btn, alert, items, block, banner) ==
    [ctx : ctx, nav : nav, resp : resp, ajax : ajax, btn : btn, alert : alert,
     items : items, block : block, banner : banner]

\* the outcomes left at their defaults
NoItems(e) == e.items = <<>>
NoRenew(e) == e.ajax = "non200" /\ ~e.btn /\ ~e.alert
NoBrowser(e) == e.ctx = "ok" /\ e.nav = "ok"
NoResp(e) == e.resp = "ok"
NoBlock(e) == ~e.block
NoBanner(e) == e.banner = "neither"

\* get_checkouts, get_holds: one navigation in headless mode, one GET
\* otherwise; the origin may answer either with its anti-automation challenge
ListEnvs ==
    [h \in BOOLEAN |->
        Enumerated({e \in Outcomes(IF h THEN CtxOutcomes ELSE {"ok"},
                                   IF h THEN NavOutcomes ELSE {"ok"},
                                   IF h THEN {"ok"} ELSE RespOutcomes,
                                   {"non200"}, {FALSE}, {FALSE}, {<<>>},
                                   BOOLEAN, {"neither"}) :
            /\ NoItems(e) /\ NoRenew(e) /\ NoBanner(e)
            /\ IF h THEN NoResp(e) /\ (e.ctx = "fail" => e.nav = "ok")
                         /\ (~NoBrowser(e) => NoBlock(e))
               ELSE NoBrowser(e) /\ (~NoResp(e) => NoBlock(e))})]

\* get_account_summary
AccountEnvs ==
    [h \in BOOLEAN |-> Enumerated({e \in ListEnvs[h] : NoBlock(e)})]

\* place_hold: a page of its own, the submit control, the banners
PlaceHoldEnvs ==
    Enumerated({e \in Outcomes(CtxOutcomes, NavOutcomes, {"ok"}, {"non200"},
                               BOOLEAN, {FALSE}, {<<>>}, {FALSE},
                               BannerOutcomes) :
        /\ NoItems(e) /\ NoResp(e) /\ NoBlock(e)
        /\ e.ajax = "non200" /\ ~e.alert
        /\ e.ctx = "fail" => e.nav = "ok"
        /\ ~NoBrowser(e) => ~e.btn /\ NoBanner(e)})

\* search, get_pickup_locations: a page of their own
BrowseEnvs == Enumerated({e \in PlaceHoldEnvs : ~e.btn /\ NoBanner(e)})

\* what the rendered-page renewal can read
RenewPageEnv(e) ==
    /\ e.ctx = "fail" => e.nav = "ok"
    /\ ~NoBrowser(e) => ~e.btn
    /\ ~e.btn => ~e.alert

\* renew_item
RenewEnvs ==
    [h \in BOOLEAN |->
        Enumerated({e \in Outcomes(CtxOutcomes, NavOutcomes, {"ok"},
                                   IF h THEN {"non200"} ELSE AjaxOutcomes,
                                   BOOLEAN, BOOLEAN, {<<>>}, {FALSE},
                                   {"neither"}) :
            /\ NoItems(e) /\ NoResp(e) /\ NoBlock(e) /\ NoBanner(e)
            /\ RenewPageEnv(e)
            /\ h => e.ajax = "non200"
            /\ e.ajax # "non200" => NoBrowser(e) /\ ~e.btn})]

\* renew_all on an account whose checkouts are one of lists: the listing
\* fails or is blocked, or it succeeds and the renewals follow
RenewAllOutcomes(h, lists) ==
    Outcomes(IF h THEN CtxOutcomes ELSE {"ok"}, IF h THEN NavOutcomes ELSE {"ok"},
             IF h THEN {"ok"} ELSE RespOutcomes, {"non200"}, {FALSE}, {FALSE},
             {<<>>}, BOOLEAN, {"neither"})
    \cup Outcomes({"ok"}, {"ok"}, {"ok"}, {"success", "failure", "error"},
                  {FALSE}, {FALSE}, lists, {FALSE}, {"neither"})
    \cup Outcomes(CtxOutcomes, NavOutcomes, {"ok"}, {"non200"}, BOOLEAN,
                  BOOLEAN, lists, {FALSE}, {"neither"})

\* the outcomes a renew_all call can read
RenewAllRead(h, e) ==
    /\ RenewPageEnv(e) /\ NoBanner(e)
    /\ h => NoResp(e) /\ e.ajax = "non200"
    /\ e.ajax # "non200" => NoBrowser(e) /\ ~e.btn
    /\ (e.resp = "error" \/ (h /\ ~NoBrowser(e))) => NoItems(e) /\ NoBlock(e)
    /\ e.block => NoItems(e)
    /\ (\A i \in 1..Len(e.items) : ~e.items[i]) =>
           NoRenew(e) /\ (~h => NoBrowser(e))

\* renew_all
RenewAllEnvs ==
    [h \in BOOLEAN |->
        Enumerated({e \in RenewAllOutcomes(h, FlagSeqs(MaxItems)) :
                       RenewAllRead(h, e)})]

\* renew_all on an account with few checkouts
RenewAllFewEnvs ==
    [h \in BOOLEAN |->
        Enumerated({e \in RenewAllOutcomes(h, FlagSeqs(FewItems)) :
                       RenewAllRead(h, e)})]

\* the headless branch with the navigation's exception caught
AccountPage_SwallowsTimeout(s, path, e) == Ok(_navigate(s, path, e.nav, e).s)

\* the headless branch of the account operations: _navigate, then the page
AccountPage(s, path, e) == _navigate(s, path, e.nav, e)

\* the request-channel branch: GET /MyAccount/AJAX, raise_for_status, json();
\* the challenge is an error status with an HTML body
AccountAjax(s, e) ==
    LET s1 == [HttpRequest(s) EXCEPT !.t.blocked = e.block]
    IN  IF e.resp = "error" \/ e.block THEN Raise(s1, "error")
        ELSE Ok([s1 EXCEPT !.t.ret = "parsed"])

\* html = await page.content()
page_content(e) == IF e.block THEN "challenge" ELSE "listing"

\* "cloudflare" in html.lower() and "challenge" in html.lower()
IsChallenge(html) == html = "challenge"

\* parse_checkouts_page, parse_holds_page: the entries selected by their CSS
\* classes, of which the challenge page has none
ParseRows(html) == IF IsChallenge(html) THEN "empty" ELSE "parsed"

\* the list a headless call returns from the page it read
ReturnList(s, v, e) == Ok([s EXCEPT !.t.ret = v, !.t.blocked = e.block])

\* print("Warning: ...", file=sys.stderr)
Warn(s) == [s EXCEPT !.t.warned = TRUE]

\* get_account_summary
get_account_summary(s, e) ==
    IF s.headless THEN AccountPage(s, HomePath, e) ELSE AccountAjax(s, e)

\* get_checkouts on the request channel in both modes
get_checkouts_AlwaysAjax(s, e) == AccountAjax(s, e)

\* get_checkouts
get_checkouts(s, e) ==
    IF ~s.headless THEN AccountAjax(s, e)
    ELSE With(AccountPage(s, CheckedOutPath, e), LAMBDA n :
             IF n.exc # "none" THEN n
             ELSE ReturnList(n.s, ParseRows(page_content(e)), e))

\* get_holds
get_holds(s, e) ==
    IF ~s.headless THEN AccountAjax(s, e)
    ELSE With(AccountPage(s, HoldsPath, e), LAMBDA n :
             IF n.exc # "none" THEN n
             ELSE IF IsChallenge(page_content(e))
             THEN ReturnList(Warn(n.s), "empty", e)
             ELSE ReturnList(n.s, ParseRows(page_content(e)), e))

\* context.new_page(), page.goto(), ..., finally page.close()
OnOwnPage(s, e) ==
    LET c == _get_browser_context(s, e)
        s1 == [NewPage(c.s) EXCEPT !.t.loads = @ + 1]
    IN  IF c.exc # "none" THEN c
        ELSE IF e.nav = "timeout" THEN Raise(ClosePage(s1), "error")
        ELSE Ok(ClosePage(s1))

\* search(query, index, limit=20)
DefaultLimit == 20

\* the limits a caller passes: int, negative ones included
Limits == (0 - MaxResults - 1) .. (MaxResults + 1)

\* parse_search_results_html: one result per .resultsList entry, in page order
parse_search_results_html(found) == [i \in 1..found |-> i]

\* the slice that keeps everything
Slice_KeepsAll(results, limit) == results

\* results[:limit]: a negative limit counts from the end of the list
Slice(results, limit) ==
    LET n == Len(results)
        stop == IF limit < 0
                THEN (IF n + limit < 0 THEN 0 ELSE n + limit)
                ELSE (IF limit > n THEN n ELSE limit)
    IN  SubSeq(results, 1, stop)

\* search: found is the number of entries on the results page
search(s, limit, found, e) ==
    LET r == OnOwnPage(s, e)
        results == parse_search_results_html(found)
    IN  IF r.exc # "none" THEN r
        ELSE Ok([r.s EXCEPT !.t.found = found, !.t.limit = limit,
                            !.t.hits = Slice(results, limit)])

\* message of place_hold when the page shows neither banner
UnknownResult == "Unknown result - please check your holds"

HoldResult(success, message) == [success |-> success, message |-> message]

\* the result reported although no success banner is on the page
HoldOutcome_SuccessUnlessError(banner) ==
    IF banner \in {"success", "both", "neither"}
    THEN HoldResult(TRUE, "success_banner")
    ELSE HoldResult(FALSE, "error_banner")

\* place_hold, lines 634-644: the result read from the two banners
HoldOutcome(banner) ==
    IF banner \in {"success", "both"} THEN HoldResult(TRUE, "success_banner")
    ELSE IF banner = "error" THEN HoldResult(FALSE, "error_banner")
    ELSE HoldResult(FALSE, UnknownResult)

\* the submit step clicking again when no success banner followed the click
SubmitHold_ClicksUntilSuccess(s, e) ==
    LET q == [s EXCEPT !.t.control = IF e.btn THEN "present" ELSE "absent"]
    IN  IF ~e.btn THEN q
        ELSE IF e.banner \in {"success", "both"} THEN [q EXCEPT !.t.clicks = @ + 1]
        ELSE [q EXCEPT !.t.clicks = @ + 2]

\* place_hold, lines 626-631: the submit control is clicked if it is there
SubmitHold(s, e) ==
    LET q == [s EXCEPT !.t.control = IF e.btn THEN "present" ELSE "absent"]
    IN  IF e.btn THEN [q EXCEPT !.t.clicks = @ + 1] ELSE q

\* place_hold
place_hold(s, e) ==
    LET c == _get_browser_context(s, e)
        s1 == [NewPage(c.s) EXCEPT !.t.loads = @ + 1]
        s2 == [SubmitHold(s1, e) EXCEPT !.t.banner = e.banner]
    IN  IF c.exc # "none"
        THEN [s |-> c.s, ret |-> HoldResult(FALSE, "none"), exc |-> c.exc]
        ELSE IF e.nav = "timeout"
        THEN [s |-> ClosePage(s1), ret |-> HoldResult(FALSE, "none"), exc |-> "error"]
        ELSE [s |-> ClosePage(s2), ret |-> HoldOutcome(e.banner), exc |-> "none"]

\* get_pickup_locations
get_pickup_locations(s, e) == OnOwnPage(s, e)

RenewResult(success, message) == [success |-> success, message |-> message]

\* the call turns to a channel for the renewal
Uses(s, channel) == [s EXCEPT !.t.channels = Append(@, channel)]

\* not-found message of renew_item
NoRenewButton == "Could not find renew button for this item"

\* renew_btn = await page.query_selector(...): the control was found or not
QueryControl(s, e) ==
    [s EXCEPT !.t.control = IF e.btn THEN "present" ELSE "absent"]

\* await renew_btn.click(): the origin answers the click with a success
\* indicator or with none; an indicator that was on the page stays there
ClickRenew(s, e) ==
    [s EXCEPT !.t.clicks = @ + 1, !.t.shown = e.alert,
              !.page_alert = @ \/ e.alert]

\* the page step letting the missing control raise
RenewOnPage_RaisesWithoutControl(s, e) ==
    With(_navigate(Uses(s, "page"), CheckedOutPath, e.nav, e), LAMBDA n :
    LET q == [QueryControl(n.s, e) EXCEPT !.t.stale = n.s.page_alert]
        s1 == ClickRenew(q, e)
    IN  IF n.exc # "none"
        THEN [s |-> n.s, ret |-> RenewResult(FALSE, "Renewal failed"), exc |-> "none"]
        ELSE IF e.btn /\ s1.page_alert
        THEN [s |-> s1, ret |-> RenewResult(TRUE, "alert"), exc |-> "none"]
        ELSE IF e.btn
        THEN [s |-> s1, ret |-> RenewResult(FALSE, NoRenewButton), exc |-> "none"]
        ELSE [s |-> q, ret |-> RenewResult(FALSE, "none"), exc |-> "error"])

\* renew_item, lines 671-688: the renew control of the rendered page, and
\* after the click the query for ".alert-success, .success" on the page
RenewOnPage(s, e) ==
    With(_navigate(Uses(s, "page"), CheckedOutPath, e.nav, e), LAMBDA n :
    LET q == [QueryControl(n.s, e) EXCEPT !.t.stale = n.s.page_alert]
        s1 == ClickRenew(q, e)
    IN  IF n.exc # "none"
        THEN [s |-> n.s, ret |-> RenewResult(FALSE, "Renewal failed"), exc |-> "none"]
        ELSE IF e.btn /\ s1.page_alert
        THEN [s |-> s1, ret |-> RenewResult(TRUE, "alert"), exc |-> "none"]
        ELSE [s |-> IF e.btn THEN s1 ELSE q,
              ret |-> RenewResult(FALSE, NoRenewButton),
              exc |-> "none"])

\* the POST to /MyAccount/AJAX with method renewItem, and how it was answered
PostRenewItem(s, e) ==
    [HttpRequest(Uses(s, "request")) EXCEPT !.t.posts = @ + 1, !.t.ajax = e.ajax]

\* renew_item that posts on the request channel in both modes
renew_item_AlwaysPosts(s, e) ==
    LET s1 == PostRenewItem(s, e)
    IN  IF e.ajax = "error"
        THEN [s |-> s1, ret |-> RenewResult(FALSE, "none"), exc |-> "error"]
        ELSE IF e.ajax \in {"success", "failure"}
        THEN [s |-> s1, ret |-> RenewResult(e.ajax = "success", "ajax"), exc |-> "none"]
        ELSE RenewOnPage(s1, e)

\* renew_item
renew_item(s, e) ==
    LET s1 == PostRenewItem(s, e)
    IN  IF s.headless THEN RenewOnPage(s, e)
        ELSE IF e.ajax = "error"
        THEN [s |-> s1, ret |-> RenewResult(FALSE, "none"), exc |-> "error"]
        ELSE IF e.ajax \in {"success", "failure"}
        THEN [s |-> s1, ret |-> RenewResult(e.ajax = "success", "ajax"), exc |-> "none"]
        ELSE RenewOnPage(s1, e)

\* the loop of renew_all over the checkouts from position i on
RECURSIVE RenewFrom(_, _, _, _)
RenewFrom(s, i, results, e) ==
    IF i > Len(e.items) THEN [s |-> s, ret |-> results, exc |-> "none"]
    ELSE IF ~e.items[i] THEN RenewFrom(s, i + 1, results, e)
    ELSE With(renew_item([s EXCEPT !.t.attempted = Append(@, i)], e), LAMBDA r :
             IF r.exc # "none" THEN [s |-> r.s, ret |-> results, exc |-> r.exc]
             ELSE RenewFrom(r.s, i + 1, Append(results, r.ret), e))

\* renew_all
renew_all(s, e) ==
    With(get_checkouts(s, e), LAMBDA c :
        IF c.exc # "none" THEN [s |-> c.s, ret |-> <<>>, exc |-> c.exc]
        ELSE RenewFrom([c.s EXCEPT !.t.listed = TRUE, !.t.items = e.items],
                       1, <<>>, e))

(***************************************************************************)
(* Hold status.  A status text is the set of the words below that occur in *)
(* it once it is lower-cased, which is all the three mappings test.        *)
(***************************************************************************)
StatusWords == {"available", "ready", "transit", "suspend", "frozen", "expired"}

StatusTexts == SUBSET StatusWords

\* get_holds, lines 536-544: the status of an item of the JSON items array
JsonHoldStatus(text) ==
    IF "available" \in text \/ "ready" \in text THEN "available"
    ELSE IF "transit" \in text THEN "in_transit"
    ELSE IF "suspend" \in text \/ "frozen" \in text THEN "suspended"
    ELSE "pending"

\* parse_holds_html: the status of a row of the AJAX HTML fragment
FragmentHoldStatus(text) ==
    IF "available" \in text \/ "ready" \in text THEN "available"
    ELSE IF "transit" \in text THEN "in_transit"
    ELSE IF "suspend" \in text \/ "frozen" \in text THEN "suspended"
    ELSE "pending"

\* parse_holds_page: the status of an entry of the rendered page
PageHoldStatus(text) ==
    IF "available" \in text \/ "ready" \in text THEN "available"
    ELSE IF "transit" \in text THEN "in_transit"
    ELSE IF "suspend" \in text \/ "frozen" \in text THEN "suspended"
    ELSE IF "expired" \in text THEN "expired"
    ELSE "pending"

\* word in status, for the status values the mappings produce: of "pending",
\* "available", "in_transit", "suspended" and "expired", only "suspended"
\* has "suspend" in it and none has "frozen"
InStatus(word, status) == word = "suspend" /\ status = "suspended"

\* get_holds, line 555: is_frozen=item.get("frozen", False); indicator is the
\* item's "frozen" value, FALSE when the item has none
JsonIsFrozen(status, indicator) == indicator

\* parse_holds_html, lines 184-188, and parse_holds_page, lines 551-554:
\* indicator is frozen_elem, the row's .frozen, .suspended or checked freeze
\* input
HtmlIsFrozen(status, indicator) ==
    IF indicator THEN TRUE
    ELSE InStatus("suspend", status) \/ InStatus("frozen", status)

(***************************************************************************)
(* Record identifiers.  A value read from the source is known by its kind:  *)
(* "missing" (no such key or attribute, None), "null" (JSON null), "empty"  *)
(* (the empty string), "text" (any other text) or "listEntry" (a text that  *)
(* starts with "listEntry").  An id is the sequence of its parts; the empty *)
(* id is the empty sequence.                                                *)
(***************************************************************************)
JsonKinds == {"missing", "null", "empty", "text"}
AttrKinds == {"missing", "empty", "text"}
RowIdKinds == AttrKinds \cup {"listEntry"}

\* bool(value)
Truthy(k) == k \in {"text", "listEntry"}

\* a or b
Or(a, b) == IF Truthy(a) THEN a ELSE b

\* str(value) of a value of the JSON item
Str(k) ==
    CASE k = "null" -> <<"None">>
      [] k = "text" -> <<"x">>
      [] OTHER -> <<>>

\* the text of a truthy attribute value
Text(k) == IF k = "listEntry" THEN <<"listEntry", "7">> ELSE <<"x">>

\* f"checkout-{len(checkouts)}", f"hold-{len(holds)}"
Synthesized(record, n) == <<record, "-", n>>

\* get_checkouts, line 472, get_holds, line 548:
\* str(item.get("id", item.get("recordId", "")))
JsonId(item) ==
    Str(IF item.id # "missing" THEN item.id
        ELSE IF item.altId # "missing" THEN item.altId
        ELSE "empty")

\* parse_checkouts_html, lines 46-60, parse_holds_html, lines 126-138
FragmentId(row, record, n) ==
    LET fromElem == IF row.elem
                    THEN Or(row.dataId, Or(row.dataAlt, row.value))
                    ELSE "missing"
        item_id == IF ~Truthy(fromElem) /\ row.checkbox
                   THEN Or(row.cbValue, row.cbId)
                   ELSE fromElem
    IN  IF Truthy(item_id) THEN Text(item_id) ELSE Synthesized(record, n)

\* parse_checkouts_page, lines 367-376, parse_holds_page, lines 462-469
PageId(row, record, n) ==
    LET fromRow == Or(row.dataId, IF row.id = "missing" THEN "empty" ELSE row.id)
        item_id == IF (~Truthy(fromRow) \/ fromRow = "listEntry") /\ row.input
                   THEN Or(row.inputValue, row.nameTail)
                   ELSE fromRow
    IN  IF Truthy(item_id) THEN Text(item_id) ELSE Synthesized(record, n)

\* the items and rows the three paths read an id from
JsonItems == [id : JsonKinds, altId : JsonKinds]

FragmentRows ==
    Enumerated({r \in [elem : BOOLEAN, dataId : AttrKinds, dataAlt : AttrKinds,
                       value : AttrKinds, checkbox : BOOLEAN,
                       cbValue : AttrKinds, cbId : AttrKinds] :
        /\ ~r.elem => r.dataId = "missing" /\ r.dataAlt = "missing"
                      /\ r.value = "missing"
        /\ ~r.checkbox => r.cbValue = "missing" /\ r.cbId = "missing"})

PageEntries ==
    Enumerated({r \in [dataId : AttrKinds, id : RowIdKinds, input : BOOLEAN,
                       inputValue : AttrKinds, nameTail : {"empty", "text"}] :
        ~r.input => r.inputValue = "missing" /\ r.nameTail = "empty"})

(***************************************************************************)
(* Dates.  A text is the sequence of its tokens: a number with its value    *)
(* and the count of its digits, a month name, or a piece of punctuation.    *)
(* "May" is one and the same token as a full and as an abbreviated name.    *)
(***************************************************************************)
Token(k, v, w) == [k |-> k, v |-> v, w |-> w]

\* a number as it is written: four digits for a year, else two digits when
\* it is padded with a zero or has two, else one
Num(v, pad) ==
    Token("num", v, IF v >= 1000 THEN 4 ELSE IF v >= 10 \/ pad THEN 2 ELSE 1)

Lit(c) == Token(c, 0, 0)

MonthName(form, m) == IF m = 5 THEN Token("may", m, 0) ELSE Token(form, m, 0)

\* the six formats of parse_date, in its order, and three it does not have
Shapes ==
    {"slash", "dash", "iso", "long", "abbr", "abbrdot", "dots", "mixed",
     "words"}

\* the date y-m-d as a text of the given shape
Written(shape, y, m, d, pad) ==
    CASE shape = "slash" ->
             <<Num(m, pad), Lit("/"), Num(d, pad), Lit("/"), Num(y, pad)>>
      [] shape = "dash" ->
             <<Num(m, pad), Lit("-"), Num(d, pad), Lit("-"), Num(y, pad)>>
      [] shape = "iso" ->
             <<Num(y, pad), Lit("-"), Num(m, pad), Lit("-"), Num(d, pad)>>
      [] shape = "long" ->
             <<MonthName("full", m), Lit(" "), Num(d, pad), Lit(", "), Num(y, pad)>>
      [] shape = "abbr" ->
             <<MonthName("abbr", m), Lit(" "), Num(d, pad), Lit(", "), Num(y, pad)>>
      [] shape = "abbrdot" ->
             <<MonthName("abbr", m), Lit(". "), Num(d, pad), Lit(", "), Num(y, pad)>>
      [] shape = "dots" ->
             <<Num(d, pad), Lit("."), Num(m, pad), Lit("."), Num(y, pad)>>
      [] shape = "mixed" ->
             <<Num(m, pad), Lit("/"), Num(d, pad), Lit("-"), Num(y, pad)>>
      [] OTHER -> <<Token("word", 0, 0)>>

\* the formats list of parse_date, each format as its directives
Formats ==
    << <<"%m", "/", "%d", "/", "%Y">>,
       <<"%m", "-", "%d", "-", "%Y">>,
       <<"%Y", "-", "%m", "-", "%d">>,
       <<"%B", " ", "%d", ", ", "%Y">>,
       <<"%b", " ", "%d", ", ", "%Y">>,
       <<"%b", ". ", "%d", ", ", "%Y">> >>

\* one directive of datetime.strptime against one token
Matches(directive, tok) ==
    CASE directive = "%m" -> tok.k = "num" /\ tok.w \in {1, 2} /\ tok.v \in 1..12
      [] directive = "%d" -> tok.k = "num" /\ tok.w \in {1, 2} /\ tok.v \in 1..31
      [] directive = "%Y" -> tok.k = "num" /\ tok.w = 4
      [] directive = "%B" -> tok.k \in {"full", "may"}
      [] directive = "%b" -> tok.k \in {"abbr", "may"}
      [] OTHER -> tok.k = directive

IsLeap(y) == y % 4 = 0 /\ (y % 100 # 0 \/ y % 400 = 0)

DaysIn(y, m) ==
    IF m = 2 THEN (IF IsLeap(y) THEN 29 ELSE 28)
    ELSE IF m \in {4, 6, 9, 11} THEN 30
    ELSE 31

\* the value the text has for a directive of the format
Field(fmt, text, directive) ==
    text[CHOOSE i \in 1..Len(fmt) : fmt[i] = directive].v

\* the month directive of a format
MonthOf(fmt) ==
    CHOOSE x \in {"%m", "%B", "%b"} : \E i \in 1..Len(fmt) : fmt[i] = x

\* datetime.strptime(date_str, fmt).date(): ValueError unless the whole text
\* matches the format and names a day of the calendar
Strptime(text, fmt) ==
    LET y == Field(fmt, text, "%Y")
        m == Field(fmt, text, MonthOf(fmt))
        d == Field(fmt, text, "%d")
    IN  IF Len(text) = Len(fmt)
           /\ \A i \in 1..Len(fmt) : Matches(fmt[i], text[i])
        THEN IF d <= DaysIn(y, m)
             THEN [ok |-> TRUE, date |-> <<y, m, d>>]
             ELSE [ok |-> FALSE, date |-> <<>>]
        ELSE [ok |-> FALSE, date |-> <<>>]

\* date_str.strip()
RECURSIVE Strip(_)
Strip(text) ==
    IF text = <<>> THEN text
    ELSE IF Head(text).k = " " THEN Strip(Tail(text))
    ELSE IF text[Len(text)].k = " " THEN Strip(SubSeq(text, 1, Len(text) - 1))
    ELSE text

\* for fmt in formats: try: return strptime(...) except ValueError: continue
RECURSIVE TryFormats(_, _, _)
TryFormats(text, formats, i) ==
    IF i > Len(formats) THEN [ret |-> <<>>, exc |-> "none"]
    ELSE IF Strptime(text, formats[i]).ok
    THEN [ret |-> Strptime(text, formats[i]).date, exc |-> "none"]
    ELSE TryFormats(text, formats, i + 1)

\* parse_date without its last format
parse_date_WithoutDotFormat(x) ==
    IF x.type = "none" \/ (x.type = "str" /\ x.text = <<>>)
       \/ (x.type = "int" /\ x.n = 0)
    THEN [ret |-> <<>>, exc |-> "none"]
    ELSE IF x.type = "int" THEN [ret |-> <<>>, exc |-> "error"]
    ELSE TryFormats(Strip(x.text), SubSeq(Formats, 1, Len(Formats) - 1), 1)

\* parse_date: x is None, a text, or a value of another type (a JSON number),
\* which has no strip()
parse_date(x) ==
    IF x.type = "none" \/ (x.type = "str" /\ x.text = <<>>)
       \/ (x.type = "int" /\ x.n = 0)
    THEN [ret |-> <<>>, exc |-> "none"]
    ELSE IF x.type = "int" THEN [ret |-> <<>>, exc |-> "error"]
    ELSE TryFormats(Strip(x.text), Formats, 1)

\* the dates the texts are written for, days that no month has included
Years == {2024, 2026}
Months == {2, 5, 12}
Days == {5, 15, 29, 30, 31}

\* a value handed to parse_date
DateValue(type, text, n, shape, y, m, d) ==
    [type |-> type, text |-> text, n |-> n, shape |-> shape, y |-> y, m |-> m,
     d |-> d]

Spaced(text, spaced) ==
    IF spaced THEN <<Lit(" ")>> \o text \o <<Lit(" ")>> ELSE text

\* None, "", " ", 0, a number, and the texts of every shape
DateValues ==
    {DateValue("none", <<>>, 0, "none", 0, 0, 0),
     DateValue("str", <<>>, 0, "none", 0, 0, 0),
     DateValue("str", <<Lit(" ")>>, 0, "none", 0, 0, 0),
     DateValue("int", <<>>, 0, "none", 0, 0, 0),
     DateValue("int", <<>>, 20260215, "none", 0, 0, 0)}
    \cup {DateValue("str", Spaced(Written(shape, y, m, d, pad), spaced), 0,
                    shape, y, m, d) :
              shape \in Shapes, y \in Years, m \in Months, d \in Days,
              pad \in BOOLEAN, spaced \in BOOLEAN}

(***************************************************************************)
(* Row selection.  A document is the sequence of its elements in document   *)
(* order; an element is known by the candidates of the row selector that    *)
(* match it (1 is the first selector of the comma-separated group) and by   *)
(* the element it is nested in (0 for none).                                *)
(***************************************************************************)
\* selectors in the group of each of the four extractors, e.g.
\* ".checkoutEntry, .ilsCheckoutEntry, tr.checkout-row, .result"
NumCandidates == 4

Element(cands, parent) == [cands |-> cands, parent |-> parent]

\* the documents of up to n elements
RECURSIVE Documents(_)
Documents(n) ==
    IF n = 0 THEN {<<>>}
    ELSE LET shorter == Documents(n - 1)
         IN  shorter \cup
             {Append(doc, Element(cands, parent)) :
                 doc \in {x \in shorter : Len(x) = n - 1},
                 cands \in SUBSET (1..NumCandidates),
                 parent \in 0..(n - 1)}

\* soup.select("a, b, c, d"): every element that matches any selector of the
\* group, once, in document order
select(doc) ==
    SelectSeq([i \in 1..Len(doc) |-> i], LAMBDA i : doc[i].cands # {})

(***************************************************************************)
(* Extraction loops.  A listing is the sequence of its rows or items, each  *)
(* known by whether building its record raises (a value of the wrong type,  *)
(* a count that is no number); a record is known by the position of its row.*)
(***************************************************************************)
\* the listings of up to MaxRows rows
Listings == FlagSeqs(MaxRows)

\* for row in rows: try: ... append(...) except Exception: continue
\* (parser.py 44-112, 124-208, 365-448, 460-573)
RECURSIVE HtmlRowsFrom(_, _, _)
HtmlRowsFrom(rows, i, records) ==
    IF i > Len(rows) THEN [ret |-> records, exc |-> "none"]
    ELSE IF rows[i] THEN HtmlRowsFrom(rows, i + 1, records)
    ELSE HtmlRowsFrom(rows, i + 1, Append(records, i))

\* for item in items: append(...), with no handler (client.py 469-482, 536-558)
RECURSIVE JsonItemsFrom(_, _, _)
JsonItemsFrom(items, i, records) ==
    IF i > Len(items) THEN [ret |-> records, exc |-> "none"]
    ELSE IF items[i] THEN [ret |-> <<>>, exc |-> "error"]
    ELSE JsonItemsFrom(items, i + 1, Append(records, i))

(***************************************************************************)
(* Account summary.  The source gives each counter and the fines as a      *)
(* number or leaves it out; the fines may also be a text that is no number. *)
(***************************************************************************)
Counters == {"numCheckedOut", "numOverdue", "numHolds", "numAvailableHolds"}

Omitted == [present |-> FALSE, v |-> 0, parses |-> TRUE]

\* what the source says of a counter: nothing, or a number, which the origin
\* may give as a negative one
CountValues ==
    {Omitted} \cup {[present |-> TRUE, v |-> n, parses |-> TRUE] :
                        n \in (0 - 1)..MaxCount}

\* what the source says of the fines: as a counter, or a text that float()
\* does not accept
FineValues ==
    CountValues \cup {[present |-> TRUE, v |-> n, parses |-> FALSE] :
                          n \in (0 - 1)..MaxCount}

Payloads ==
    [numCheckedOut : CountValues, numOverdue : CountValues,
     numHolds : CountValues, numAvailableHolds : CountValues,
     totalFines : FineValues]

\* get_account_summary, lines 374-377: int(summary.get(key, 0))
JsonCount(x) == IF x.present THEN x.v ELSE 0

\* get_account_summary, lines 380-388: the "$" and "," are removed from a
\* text, float() of it or 0.0 on ValueError; float(fines or 0) of a number
JsonFines(x) ==
    IF ~x.present THEN 0
    ELSE IF ~x.parses THEN 0
    ELSE x.v

\* parse_account_summary_page, lines 331-339, and line 419 and the like:
\* the pattern LABEL\s*(\d+) matches digits only, so no sign; a key that did
\* not match is left out and data.get(key, 0) gives 0
PageCount(x) == IF x.present /\ x.v >= 0 THEN x.v ELSE 0

\* parse_account_summary_page, lines 342-347, and line 423: Fees?\s*\$?([\d,.]+)
\* and float() of the match, left out on ValueError
PageFines(x) ==
    IF x.present /\ x.v >= 0 /\ x.parses THEN x.v ELSE 0

\* get_account_summary on the request channel
SummaryOfJson(data) ==
    [num_checked_out |-> JsonCount(data.numCheckedOut),
     num_overdue |-> JsonCount(data.numOverdue),
     num_holds |-> JsonCount(data.numHolds),
     num_available_holds |-> JsonCount(data.numAvailableHolds),
     total_fines |-> JsonFines(data.totalFines)]

\* _get_account_summary_headless
SummaryOfPage(data) ==
    [num_checked_out |-> PageCount(data.numCheckedOut),
     num_overdue |-> PageCount(data.numOverdue),
     num_holds |-> PageCount(data.numHolds),
     num_available_holds |-> PageCount(data.numAvailableHolds),
     total_fines |-> PageFines(data.totalFines)]

(***************************************************************************)
(* Shutdown                                                                *)
(***************************************************************************)
\* the release steps of close(), in its order
CloseSteps == <<"http", "page", "context", "browser", "pw">>
\* which release raises, if any
CloseOutcomes == {"none", "http", "page", "context", "browser", "pw"}

HandleSet(s, r) ==
    CASE r = "http" -> s._http_client # NoClient
      [] r = "page" -> s._api_page
      [] r = "context" -> s._context
      [] r = "browser" -> s._browser
      [] OTHER -> s._playwright

\* one "if handle: await release(); handle = None"
Release(s, r) ==
    CASE r = "http" -> [s EXCEPT !._http_client = NoClient, !.live.http = @ - 1]
      [] r = "page" -> [s EXCEPT !._api_page = FALSE, !.live.page = @ - 1]
      [] r = "context" -> [s EXCEPT !._context = FALSE, !.live.context = @ - 1]
      [] r = "browser" -> [s EXCEPT !._browser = FALSE, !.live.browser = @ - 1]
      [] OTHER -> [s EXCEPT !._playwright = FALSE, !.live.pw = @ - 1]

RECURSIVE CloseFrom(_, _, _)
CloseFrom(s, i, fail) ==
    IF i > Len(CloseSteps) THEN Ok(s)
    ELSE IF ~HandleSet(s, CloseSteps[i]) THEN CloseFrom(s, i + 1, fail)
    ELSE IF fail = CloseSteps[i] THEN Raise(s, "error")
    ELSE CloseFrom(Release(s, CloseSteps[i]), i + 1, fail)

\* close
close(s, fail) == CloseFrom(s, 1, fail)

(***************************************************************************)
(* Actions                                                                 *)
(***************************************************************************)
Begin(op) ==
    [State EXCEPT !.t.op = op, !.t.hadState = _has_browser_state(State),
                  !.t.usable = Usable(STATE_FILE) \/ Usable(BROWSER_STATE_FILE)]

\* how a call that returns a truth value ended
EndBool(r) ==
    [r.s EXCEPT !.t.outcome = IF r.exc # "none" THEN "raise"
                              ELSE IF r.ret THEN "true" ELSE "false",
                !.t.err = r.exc]

\* how a call that returns a value ended
EndCall(r) ==
    [r.s EXCEPT !.t.outcome = IF r.exc # "none" THEN "raise" ELSE "ok",
                !.t.err = r.exc]

\* how a renewal call ended, with its results
EndRenew(r, results) ==
    [EndCall(r) EXCEPT !.t.results = IF r.exc # "none" THEN <<>> ELSE results]

\* how a call that returns one result ended
EndOne(r) == EndRenew(r, <<r.ret>>)

\* how a call that returns a list of results ended
EndList(r) == EndRenew(r, r.ret)

CanCall == phase = "open" /\ nOps < MaxOps

Called == nOps' = nOps + 1 /\ phase' = phase

\* login would run the liveness probe
Probing(force) ==
    LET l == _load_cookies(State) IN ~force /\ l.exc = "none" /\ l.ret

\* the session is authenticated from a login call that returned True until
\* the next login call
Authenticated(s) == [s EXCEPT !.authenticated = (s.t.outcome = "true")]

\* await client.login(force)
Login(force) ==
    /\ CanCall
    /\ \E e \in LoginEnvs[headless, Probing(force)] :
           Commit(Authenticated(EndBool(
               login([Begin("login") EXCEPT !.t.force = force], force, e))))
    /\ Called

\* await client.close(), from the finally clause of the caller
Close ==
    /\ phase = "open"
    /\ \E fail \in CloseOutcomes : Commit(EndCall(close(Begin("close"), fail)))
    /\ phase' = "closed"
    /\ nOps' = nOps

\* await client.get_account_summary()
GetAccountSummary ==
    /\ CanCall
    /\ \E e \in AccountEnvs[headless] :
           Commit(EndCall(get_account_summary(Begin("get_account_summary"), e)))
    /\ Called

\* await client.get_checkouts()
GetCheckouts ==
    /\ CanCall
    /\ \E e \in ListEnvs[headless] :
           Commit(EndCall(get_checkouts(Begin("get_checkouts"), e)))
    /\ Called

\* await client.get_holds()
GetHolds ==
    /\ CanCall
    /\ \E e \in ListEnvs[headless] :
           Commit(EndCall(get_holds(Begin("get_holds"), e)))
    /\ Called

\* await client.search(query), with the default limit
Search ==
    /\ CanCall
    /\ \E e \in BrowseEnvs, found \in 0..MaxResults :
           /\ ~NoBrowser(e) => found = 0
           /\ Commit(EndCall(search(Begin("search"), DefaultLimit, found, e)))
    /\ Called

\* await client.search(query, index, limit)
SearchLimited ==
    /\ CanCall
    /\ \E e \in BrowseEnvs, found \in 0..MaxResults, limit \in Limits :
           /\ ~NoBrowser(e) => found = 0 /\ limit = 0
           /\ Commit(EndCall(search(Begin("search"), limit, found, e)))
    /\ Called

\* await client.place_hold(record_id, pickup_location)
PlaceHold ==
    /\ CanCall
    /\ \E e \in PlaceHoldEnvs :
           Commit(EndOne(place_hold(Begin("place_hold"), e)))
    /\ Called

\* await client.get_pickup_locations()
GetPickupLocations ==
    /\ CanCall
    /\ \E e \in BrowseEnvs :
           Commit(EndCall(get_pickup_locations(Begin("get_pickup_locations"), e)))
    /\ Called

\* await client.renew_item(item_id)
RenewItem ==
    /\ CanCall
    /\ \E e \in RenewEnvs[headless] :
           Commit(EndOne(renew_item(Begin("renew_item"), e)))
    /\ Called

\* await client.renew_all()
RenewAll ==
    /\ CanCall
    /\ \E e \in RenewAllFewEnvs[headless] :
           Commit(EndList(renew_all(Begin("renew_all"), e)))
    /\ Called

\* await client.renew_all(), on an account with up to MaxItems checkouts
RenewAllListed ==
    /\ CanCall
    /\ \E e \in RenewAllEnvs[headless] :
           Commit(EndList(renew_all(Begin("renew_all"), e)))
    /\ Called

FileStates == {Absent, CookieFile(EmptyCookies), CookieFile(OldCookies)}

\* HMCPLClient.__init__
InitHandles ==
    /\ headless \in BOOLEAN
    /\ cookies = EmptyCookies
    /\ _http_client = NoClient
    /\ _playwright = FALSE
    /\ _browser = FALSE
    /\ _context = FALSE
    /\ _api_page = FALSE
    /\ page_url = Blank
    /\ page_alert = FALSE
    /\ live = [pw |-> 0, browser |-> 0, context |-> 0, page |-> 0, http |-> 0]
    /\ pagesOpened = 0
    /\ httpUsed = FALSE
    /\ issued = 0
    /\ authenticated = FALSE
    /\ phase = "open"
    /\ nOps = 0

\* a new client, with the two files as an earlier run of the program left
\* them
InitClient ==
    /\ InitHandles
    /\ STATE_FILE \in FileStates
    /\ BROWSER_STATE_FILE \in FileStates

\* a client driven by a program that calls its coroutines in any order
Init == InitClient /\ caller = "library" /\ last = NoTrace

Next ==
    \/ \E force \in BOOLEAN : Login(force)
    \/ GetAccountSummary
    \/ GetCheckouts
    \/ GetHolds
    \/ Search
    \/ PlaceHold
    \/ GetPickupLocations
    \/ RenewItem
    \/ RenewAll
    \/ Close

Spec == Init /\ [][Next]_vars

\* args.func(client, args): the one client operation of a command
Command ==
    \/ GetAccountSummary
    \/ GetCheckouts
    \/ GetHolds
    \/ Search
    \/ PlaceHold
    \/ GetPickupLocations
    \/ RenewItem
    \/ RenewAll

\* run_command: client.login(force=args.relogin) on the new client
CliLogin == nOps = 0 /\ \E force \in BOOLEAN : Login(force)

\* run_command running the command whatever login returned
CliCommand_WithoutLoginCheck ==
    /\ nOps = 1
    /\ last.op = "login"
    /\ last.outcome \in {"true", "false"}
    /\ Command

\* run_command: the command runs if login returned True
CliCommand ==
    /\ nOps = 1
    /\ last.op = "login"
    /\ last.outcome = "true"
    /\ Command

\* cli.run_command: login, the command, and close() in the finally clause
NextCli == CliLogin \/ CliCommand \/ Close

\* a client driven by either caller
InitCallers == InitClient /\ caller \in {"cli", "library"} /\ last = NoTrace

NextCallers ==
    \/ caller = "cli" /\ NextCli
    \/ caller = "library" /\ Next

SpecCallers == InitCallers /\ [][NextCallers]_vars

\* a hold about to be extracted: its status text, and whether its source
\* carries an explicit freeze indicator
InitHoldStatus ==
    /\ InitClient
    /\ caller = "library"
    /\ \E text \in StatusTexts, indicator \in BOOLEAN :
           last = [NoTrace EXCEPT !.statusText = text, !.indicator = indicator]

\* one extraction path maps the status text of the hold and sets is_frozen
MapStatus(path, status, is_frozen) ==
    /\ last.path = "none"
    /\ last' = [last EXCEPT !.path = path, !.status = status,
                            !.is_frozen = is_frozen]
    /\ UNCHANGED <<headless, cookies, _http_client, _playwright, _browser,
                   _context, _api_page, page_url, page_alert, STATE_FILE,
                   BROWSER_STATE_FILE, live, pagesOpened, httpUsed, issued,
                   authenticated, caller, phase, nOps>>

\* get_holds over the items array of the JSON answer
MapJsonItem ==
    MapStatus("json", JsonHoldStatus(last.statusText),
              JsonIsFrozen(JsonHoldStatus(last.statusText), last.indicator))

\* parse_holds_html over the html field of the JSON answer
MapFragmentRow ==
    MapStatus("fragment", FragmentHoldStatus(last.statusText),
              HtmlIsFrozen(FragmentHoldStatus(last.statusText), last.indicator))

\* parse_holds_page over the rendered page
MapPageEntry ==
    MapStatus("page", PageHoldStatus(last.statusText),
              HtmlIsFrozen(PageHoldStatus(last.statusText), last.indicator))

NextHoldStatus == MapJsonItem \/ MapFragmentRow \/ MapPageEntry

SpecHoldStatus == InitHoldStatus /\ [][NextHoldStatus]_vars

\* a client no call has been made on, for the extraction functions
IdleClient ==
    /\ InitClient
    /\ ~headless
    /\ STATE_FILE = Absent
    /\ BROWSER_STATE_FILE = Absent
    /\ caller = "library"

\* a row of the given shape, about to be extracted as the n-th record
Pending(record, shape, row, n) ==
    [NoTrace EXCEPT !.record = record, !.shape = shape, !.source = row,
                    !.position = n]

\* one item or row of a listing of checkouts or holds, and the number of
\* records extracted before it
InitIds ==
    /\ IdleClient
    /\ \E record \in {"checkout", "hold"}, n \in 0..(MaxRows - 1) :
           \/ \E item \in JsonItems : last = Pending(record, "json", item, n)
           \/ \E row \in FragmentRows : last = Pending(record, "fragment", row, n)
           \/ \E row \in PageEntries : last = Pending(record, "page", row, n)

\* the extraction path of the row's shape gives the record its id
Extracted(shape, id) ==
    /\ last.shape = shape
    /\ last.path = "none"
    /\ last' = [last EXCEPT !.path = shape, !.id = id]
    /\ UNCHANGED <<headless, cookies, _http_client, _playwright, _browser,
                   _context, _api_page, page_url, page_alert, STATE_FILE,
                   BROWSER_STATE_FILE, live, pagesOpened, httpUsed, issued,
                   authenticated, caller, phase, nOps>>

\* get_checkouts, get_holds over the items array of the JSON answer
IdOfJsonItem == Extracted("json", JsonId(last.source))

\* parse_checkouts_html, parse_holds_html
IdOfFragmentRow ==
    Extracted("fragment", FragmentId(last.source, last.record, last.position))

\* parse_checkouts_page, parse_holds_page
IdOfPageEntry ==
    Extracted("page", PageId(last.source, last.record, last.position))

NextIds == IdOfJsonItem \/ IdOfFragmentRow \/ IdOfPageEntry

SpecIds == InitIds /\ [][NextIds]_vars

\* a document about to be searched for rows
InitSelect ==
    /\ IdleClient
    /\ \E record \in {"checkout", "hold"}, doc \in Documents(MaxElements) :
           last = [NoTrace EXCEPT !.record = record, !.source = doc]

\* the rows an extractor selected
Selected(path, rows) ==
    /\ last.path = "none"
    /\ last' = [last EXCEPT !.path = path, !.records = rows]
    /\ UNCHANGED <<headless, cookies, _http_client, _playwright, _browser,
                   _context, _api_page, page_url, page_alert, STATE_FILE,
                   BROWSER_STATE_FILE, live, pagesOpened, httpUsed, issued,
                   authenticated, caller, phase, nOps>>

\* parse_checkouts_html, line 42, parse_holds_html, line 122
SelectFragmentRows == Selected("fragment", select(last.source))

\* parse_checkouts_page, line 363, parse_holds_page, line 458
SelectPageRows == Selected("page", select(last.source))

NextSelect == SelectFragmentRows \/ SelectPageRows

SpecSelect == InitSelect /\ [][NextSelect]_vars

\* a value about to be parsed as a date
InitDates ==
    /\ IdleClient
    /\ \E x \in DateValues : last = [NoTrace EXCEPT !.source = x]

\* parse_date(x)
ParseDate ==
    /\ last.path = "none"
    /\ LET r == parse_date(last.source)
       IN  last' = [last EXCEPT !.path = "parse_date", !.date = r.ret,
                               !.outcome = IF r.exc = "none" THEN "ok" ELSE "raise",
                               !.err = r.exc]
    /\ UNCHANGED <<headless, cookies, _http_client, _playwright, _browser,
                   _context, _api_page, page_url, page_alert, STATE_FILE,
                   BROWSER_STATE_FILE, live, pagesOpened, httpUsed, issued,
                   authenticated, caller, phase, nOps>>

NextDates == ParseDate

SpecDates == InitDates /\ [][NextDates]_vars

\* a listing of checkouts or holds about to be extracted
InitRows ==
    /\ IdleClient
    /\ \E record \in {"checkout", "hold"}, rows \in Listings :
           last = [NoTrace EXCEPT !.record = record, !.source = rows]

\* one extraction path has run over the listing
Listed(path, r) ==
    /\ last.path = "none"
    /\ last' = [last EXCEPT !.path = path, !.records = r.ret,
                            !.outcome = IF r.exc = "none" THEN "ok" ELSE "raise",
                            !.err = r.exc]
    /\ UNCHANGED <<headless, cookies, _http_client, _playwright, _browser,
                   _context, _api_page, page_url, page_alert, STATE_FILE,
                   BROWSER_STATE_FILE, live, pagesOpened, httpUsed, issued,
                   authenticated, caller, phase, nOps>>

\* get_checkouts, get_holds over the items array of the JSON answer
ListJsonItems == Listed("json", JsonItemsFrom(last.source, 1, <<>>))

\* parse_checkouts_html, parse_holds_html over the html field
ListFragmentRows == Listed("fragment", HtmlRowsFrom(last.source, 1, <<>>))

\* parse_checkouts_page, parse_holds_page over the rendered page
ListPageEntries == Listed("page", HtmlRowsFrom(last.source, 1, <<>>))

NextRows == ListJsonItems \/ ListFragmentRows \/ ListPageEntries

SpecRows == InitRows /\ [][NextRows]_vars

\* the account as the origin is about to show it
InitSummary ==
    /\ IdleClient
    /\ \E data \in Payloads : last = [NoTrace EXCEPT !.source = data]

\* the summary is built from the source by one of the two modes
Summarized(path, summary) ==
    /\ last.path = "none"
    /\ last' = [last EXCEPT !.path = path, !.summary = summary]
    /\ UNCHANGED <<headless, cookies, _http_client, _playwright, _browser,
                   _context, _api_page, page_url, page_alert, STATE_FILE,
                   BROWSER_STATE_FILE, live, pagesOpened, httpUsed, issued,
                   authenticated, caller, phase, nOps>>

\* get_account_summary in interactive mode, from the JSON answer
SummarizeJson == Summarized("json", SummaryOfJson(last.source))

\* get_account_summary in headless mode, from the rendered page
SummarizePage == Summarized("page", SummaryOfPage(last.source))

NextSummary == SummarizeJson \/ SummarizePage

SpecSummary == InitSummary /\ [][NextSummary]_vars

\* the two files with any content: as the program writes them, or damaged
AnyFileStates == FileStates \cup {BadJson, BadShape}

\* a new client that finds the two files with any content
InitCache ==
    /\ InitHandles
    /\ STATE_FILE \in AnyFileStates
    /\ BROWSER_STATE_FILE \in AnyFileStates
    /\ caller = "library"
    /\ last = NoTrace

NextCache == (\E force \in BOOLEAN : Login(force)) \/ Close

SpecCache == InitCache /\ [][NextCache]_vars

\* a client used for renew_all on accounts with several checkouts
NextRenewAll == RenewAllListed \/ Close

SpecRenewAll == Init /\ [][NextRenewAll]_vars

\* a client used for searches with every limit
NextSearch == SearchLimited \/ Close

SpecSearch == Init /\ [][NextSearch]_vars

(***************************************************************************)
(* Properties                                                              *)
(***************************************************************************)
IsLogin == last.op = "login"

\* the call was login(force=false), the cache loaded and the probe failed
StaleSession == IsLogin /\ ~last.force /\ last.loaded /\ last.probe = "dead"

\* C1: login(force=false) with a cookie cache that loads non-empty and a
\* liveness probe that succeeds returns true and opens no login page, fills
\* no credential field and submits no form, in either mode.
C1_CachedLiveSessionNoLoginUI ==
    (IsLogin /\ ~last.force /\ last.loaded /\ last.probe = "alive") =>
        /\ last.outcome = "true"
        /\ last.loginPages = 0
        /\ last.fills = 0
        /\ last.submits = 0
        /\ last.reauth = 0

C1_Witness ==
    /\ IsLogin /\ ~last.force /\ last.loaded /\ last.probe = "alive"
    /\ last.outcome = "true"

\* C2 as stated: every login call that returns true, the cached-session
\* validation included, has written the cookie cache and the browser-state
\* snapshot during that call.
C2_EveryTrueLoginWritesBoth ==
    (IsLogin /\ last.outcome = "true") => last.wroteC /\ last.wroteB

\* C2 amended: a login call that returns true after a fresh login (the
\* interactive flow or the headless refresh) has written both files during
\* the call, and both hold the cookie set of that login; a call that returns
\* true on the cached session has written neither.
C2_FreshLoginWritesBoth ==
    (IsLogin /\ last.outcome = "true") =>
        IF last.reauth > 0
        THEN /\ last.wroteC /\ last.wroteB
             /\ STATE_FILE = CookieFile(cookies)
             /\ BROWSER_STATE_FILE = CookieFile(cookies)
        ELSE ~last.wroteC /\ ~last.wroteB

C2_Witness ==
    /\ IsLogin /\ last.outcome = "true" /\ last.reauth = 1
    /\ last.wroteC /\ last.wroteB

\* C3: a login call that returns false or raises has written neither the
\* cookie cache nor the browser-state snapshot.
C3_FailedLoginWritesNothing ==
    (IsLogin /\ last.outcome \in {"false", "raise"}) =>
        ~last.wroteC /\ ~last.wroteB

\* C4: in headless mode with no browser-state snapshot on disk, login ends
\* by raising the guidance error, whatever force is and whether or not a
\* cookie cache exists; it returns neither true nor false and no browser is
\* launched.
C4_HeadlessWithoutSnapshotRaises ==
    (IsLogin /\ headless /\ ~last.hadState) =>
        /\ last.outcome = "raise"
        /\ last.err = "expired_guidance"
        /\ last.launches = 0
        /\ ~_browser
        /\ live.browser = 0

C4_Witness ==
    /\ IsLogin /\ headless /\ ~last.hadState /\ last.loaded
    /\ last.outcome = "raise"

\* C5: over any sequence of calls on one client at most one page is opened
\* in the client's browser context.
C5_AtMostOnePageOpened == pagesOpened <= 1

\* C6 as stated: in either mode, a login attempt whose page after the submit
\* shows an error banner with text raises with the banner text, and one whose
\* page shows neither a banner nor a success signal returns false.
C6_BannerRaisesElseFalse ==
    /\ (IsLogin /\ last.post = "banner") =>
           last.outcome = "raise" /\ last.err = "login_failed_banner"
    /\ (IsLogin /\ last.post = "neither") => last.outcome = "false"

\* C6 amended: in interactive mode a banner with text makes login raise with
\* the banner text and a page with neither banner nor success signal makes it
\* return false; in headless mode both make login raise the guidance error,
\* which does not carry the banner text.
C6_BannerPolicyByMode ==
    (IsLogin /\ last.post \in {"banner", "neither"}) =>
        IF headless
        THEN last.outcome = "raise" /\ last.err = "expired_guidance"
        ELSE IF last.post = "banner"
        THEN last.outcome = "raise" /\ last.err = "login_failed_banner"
        ELSE last.outcome = "false" /\ last.err = "none"

C6_Witness ==
    /\ IsLogin /\ ~headless /\ last.post = "banner"
    /\ last.err = "login_failed_banner"

\* C7: in headless mode the HTTP client is never created and no HTTP request
\* is issued, over any sequence of calls.
C7_HeadlessNeverUsesRequestChannel ==
    headless =>
        /\ ~httpUsed
        /\ _http_client = NoClient
        /\ live.http = 0
        /\ last.httpReqs = 0
        /\ last.posts = 0

C7_Witness ==
    /\ headless /\ last.op = "get_checkouts" /\ last.outcome = "ok"
    /\ last.loads = 1

\* C8 as stated: a login(force=false) call whose liveness probe fails makes
\* exactly one re-authentication attempt, and if that fails the call raises,
\* in both modes.
C8_ExactlyOneAttemptThenRaise ==
    StaleSession => last.reauth = 1 /\ last.outcome \in {"true", "raise"}

\* C8 amended: a login(force=false) call whose liveness probe fails makes at
\* most one re-authentication attempt: exactly one in interactive mode and in
\* headless mode with a snapshot, none in headless mode without a snapshot.
\* A call that does not end authenticated raises in headless mode; in
\* interactive mode it raises, or returns false when the page after the
\* submit shows no banner text and no success signal.
C8_AtMostOneAttempt ==
    StaleSession =>
        /\ last.reauth <= 1
        /\ (last.reauth = 1) <=> (~headless \/ last.hadState)
        /\ headless => last.outcome \in {"true", "raise"}
        /\ last.outcome = "false" =>
               ~headless /\ last.post \in {"neither", "empty_banner"}

C8_Witness ==
    StaleSession /\ last.reauth = 1 /\ last.outcome = "raise" /\ headless

\* C9 as stated: in headless mode no login call fills a credential field or
\* submits the login form.
C9_HeadlessNeverEntersCredentials ==
    (IsLogin /\ headless) => last.fills = 0 /\ last.submits = 0

\* C9 amended: in headless mode a login call opens no login page of its own
\* and enters the credentials at most once, and only in the refresh from the
\* snapshot, when the account page it reaches shows the login form instead of
\* the account title; with no snapshot, or with a live cached session, it
\* enters none.
C9_HeadlessEntersCredentialsOnlyOnLoginForm ==
    (IsLogin /\ headless) =>
        /\ last.loginPages = 0
        /\ last.fills <= 1
        /\ last.submits = last.fills
        /\ last.fills = 1 =>
               /\ last.hadState
               /\ last.reauth = 1
               /\ last.landed = "form"
               /\ last.probe # "alive"

C9_Witness ==
    IsLogin /\ headless /\ last.fills = 1 /\ last.outcome = "true"

\* C10: once close() has run, every resource the client acquired has been
\* released and its handle cleared.
C10_AllReleasedAfterClose ==
    phase = "closed" =>
        /\ \A k \in DOMAIN live : live[k] = 0
        /\ _http_client = NoClient
        /\ ~_api_page /\ ~_context /\ ~_browser /\ ~_playwright

\* the operations of claim C11 that load a page through _navigate
NavigatingOps ==
    {"login", "get_account_summary", "get_checkouts", "get_holds", "renew_item"}

C12_BlockGivesEmptyListAndWarning ==
    (last.op \in {"get_checkouts", "get_holds"} /\ last.blocked) =>
        last.outcome = "ok" /\ last.ret = "empty" /\ last.warned

\* C13: renew_item orders its channels by mode.  An interactive call posts the
\* renewal on the request channel before it touches the browser, and turns to
\* the rendered page only when the post was answered with a status other than
\* 200 or a body that is no JSON; a replay call makes no request-channel call
\* and goes to the rendered page directly.
C13_RenewChannelOrderByMode ==
    last.op = "renew_item" =>
        IF headless
        THEN last.channels = <<"page">> /\ last.posts = 0 /\ last.httpReqs = 0
        ELSE /\ last.posts = 1
             /\ last.channels \in {<<"request">>, <<"request", "page">>}
             /\ last.channels = <<"request", "page">> <=> last.ajax = "non200"

C13_Witness ==
    /\ last.op = "renew_item"
    /\ ~headless
    /\ last.channels = <<"request", "page">>
    /\ last.clicks = 1

\* C14: in both modes, a renew_item call that reaches the rendered page and
\* finds no renew control for the item returns the failure result with the
\* message "Could not find renew button for this item" and does not raise,
\* whatever the request channel answered before.
C14_NoControlGivesFailureResult ==
    (last.op = "renew_item" /\ last.control = "absent") =>
        /\ last.outcome = "ok"
        /\ last.results = <<RenewResult(FALSE, NoRenewButton)>>
        /\ last.clicks = 0

C14_Witness ==
    /\ last.op = "renew_item"
    /\ last.control = "absent"
    /\ last.ajax = "non200"
    /\ last.outcome = "ok"

\* the positions of the renewable checkouts, in checkout order
RECURSIVE Renewable(_, _)
Renewable(items, i) ==
    IF i > Len(items) THEN <<>>
    ELSE IF items[i] THEN <<i>> \o Renewable(items, i + 1)
    ELSE Renewable(items, i + 1)

\* C15: a renew_all call that has listed the checkouts attempts the renewal of
\* exactly the checkouts with can_renew true, in checkout order, and returns
\* one result for each of them, whether an earlier renewal ended with a
\* failure result or with an error.
C15_OneResultPerRenewableCheckout ==
    (last.op = "renew_all" /\ last.listed) =>
        /\ last.attempted = Renewable(last.items, 1)
        /\ last.outcome = "ok"
        /\ Len(last.results) = Len(last.attempted)

\* C16 (as stated): one renew_item or place_hold call makes at most one
\* submission to the origin, a request-channel post or a click.
C16_AtMostOneSubmission ==
    last.op \in {"renew_item", "place_hold"} => last.posts + last.clicks <= 1

\* C16 (amended): one place_hold call clicks the submit control at most once
\* and posts nothing; one renew_item call makes at most one post and at most
\* one click, and makes both only when the post was answered with a status
\* other than 200 or a body that is no JSON.
C16_AtMostOneSubmissionPerChannel ==
    /\ last.op = "place_hold" => last.posts = 0 /\ last.clicks <= 1
    /\ last.op = "renew_item" =>
           /\ last.posts <= 1
           /\ last.clicks <= 1
           /\ last.posts + last.clicks = 2 => last.ajax = "non200"
           /\ last.ajax \in {"success", "failure", "error"} => last.clicks = 0

C16_Witness ==
    /\ last.op = "renew_item"
    /\ last.posts = 1
    /\ last.clicks = 1

\* C17: a place_hold call that returns reports success only when a success
\* banner is on the page after the submit step; with only an error banner it
\* returns success=false with the banner's text, with neither banner
\* success=false with the unknown-result message.
C17_HoldResultFollowsBanners ==
    (last.op = "place_hold" /\ last.outcome = "ok") =>
        LET r == last.results[1]
        IN  /\ Len(last.results) = 1
            /\ r.success => last.banner \in {"success", "both"}
            /\ last.banner = "error" => r = HoldResult(FALSE, "error_banner")
            /\ last.banner = "neither" => r = HoldResult(FALSE, UnknownResult)

C17_Witness ==
    /\ last.op = "place_hold"
    /\ last.clicks = 1
    /\ last.banner = "success"
    /\ last.results = <<HoldResult(TRUE, "success_banner")>>

\* hits is a prefix of the list 1..found
IsPrefixOfExtracted(hits, found) ==
    /\ Len(hits) <= found
    /\ \A i \in 1..Len(hits) : hits[i] = i

FacadeOps ==
    {"get_account_summary", "get_checkouts", "get_holds", "search",
     "place_hold", "get_pickup_locations", "renew_item", "renew_all"}

\* the call sent a request on either channel
SentTransportRequest == last.httpReqs > 0 \/ last.loads > 0

\* C19 (as stated): every facade operation has an authenticated session
\* ensured before it issues a transport request; no request of an operation is
\* sent while the client is unauthenticated.
C19_NoRequestWhileUnauthenticated ==
    (last.op \in FacadeOps /\ SentTransportRequest) => authenticated

\* C19 (amended): in the command-line flow, where run_command calls login
\* first and runs the command only if login returned True, no request of an
\* operation is sent while the client is unauthenticated.
C19_CliLogsInBeforeEveryCommand ==
    (caller = "cli" /\ last.op \in FacadeOps) => authenticated /\ nOps = 2

C19_Witness ==
    /\ caller = "cli"
    /\ last.op = "get_checkouts"
    /\ SentTransportRequest
    /\ authenticated

\* the precedence available/ready > in_transit > suspended/frozen > expired >
\* pending
StatusByPrecedence(text) ==
    IF "available" \in text \/ "ready" \in text THEN "available"
    ELSE IF "transit" \in text THEN "in_transit"
    ELSE IF "suspend" \in text \/ "frozen" \in text THEN "suspended"
    ELSE IF "expired" \in text THEN "expired"
    ELSE "pending"

\* C20: each of the three extraction paths (JSON items array, AJAX HTML
\* fragment, rendered page) maps a status text by the precedence
\* available/ready > in_transit > suspended/frozen > expired > pending.
C20_AllPathsMapByPrecedence ==
    last.path # "none" => last.status = StatusByPrecedence(last.statusText)

\* C21: on every extraction path a hold has is_frozen = TRUE whenever its
\* status is "suspended" or its source carried an explicit freeze indicator.
C21_FrozenWhenSuspendedOrIndicated ==
    (last.path # "none" /\ (last.status = "suspended" \/ last.indicator))
        => last.is_frozen

\* C22: on every extraction path a Checkout or Hold has a non-empty id; an
\* item without an identifier gets a position-based one.
C22_IdNeverEmpty ==
    last.path # "none" => Len(last.id) > 0

\* the source key a field of AccountSummary is read from
SourceKey ==
    [num_checked_out |-> "numCheckedOut", num_overdue |-> "numOverdue",
     num_holds |-> "numHolds", num_available_holds |-> "numAvailableHolds",
     total_fines |-> "totalFines"]

\* C23: in both modes and for every source payload, the five numbers of an
\* AccountSummary are non-negative, and each is 0 when the source omits it.
C23_CountsNonNegativeAndZeroWhenOmitted ==
    last.path # "none" =>
        \A f \in DOMAIN SourceKey :
            /\ last.summary[f] >= 0
            /\ ~last.source[SourceKey[f]].present => last.summary[f] = 0

\* the positions of the rows whose extraction does not raise, in source order
Kept(rows) ==
    SelectSeq([i \in 1..Len(rows) |-> i], LAMBDA i : ~rows[i])

\* C24: on every extraction path (JSON items array and both HTML paths) the
\* operation does not fail and returns a record for every row whose
\* extraction does not raise, in source order.
C24_RaisingRowSkippedOnEveryPath ==
    last.path # "none" =>
        last.outcome = "ok" /\ last.records = Kept(last.source)

\* the text is the date y-m-d written in one of the given shapes
WrittenIn(shapes, x) ==
    /\ x.type = "str"
    /\ x.d <= DaysIn(x.y, x.m)
    /\ \E shape \in shapes, pad \in BOOLEAN :
           Strip(x.text) = Written(shape, x.y, x.m, x.d, pad)

\* the four formats the claim lists
ListedShapes == {"slash", "iso", "long", "abbrdot"}

\* the six formats of the formats list
ParsedShapes == {"slash", "dash", "iso", "long", "abbr", "abbrdot"}

Matching(doc) == {c \in 1..NumCandidates : \E i \in 1..Len(doc) : c \in doc[i].cands}

\* the rows of the first candidate, in list order, that matches anything
FirstCandidateRows(doc) ==
    IF Matching(doc) = {} THEN <<>>
    ELSE LET first == CHOOSE c \in Matching(doc) : \A o \in Matching(doc) : c <= o
         IN  SelectSeq([i \in 1..Len(doc) |-> i], LAMBDA i : first \in doc[i].cands)

\* element j is nested in element a
RECURSIVE NestedIn(_, _, _)
NestedIn(doc, j, a) ==
    /\ doc[j].parent # 0
    /\ (doc[j].parent = a \/ NestedIn(doc, doc[j].parent, a))

InSeq(x, seq) == \E k \in 1..Len(seq) : seq[k] = x

\* C26: the HTML extractors of checkouts and holds extract the rows of the
\* first candidate selector, in list order, that matches anything, and no
\* others; an element nested in an element that another candidate matches
\* is not emitted next to it.
C26_FirstMatchingCandidateWins ==
    last.path # "none" =>
        /\ last.records = FirstCandidateRows(last.source)
        /\ \A a, j \in 1..Len(last.source) :
               (InSeq(a, last.records) /\ InSeq(j, last.records)
                /\ NestedIn(last.source, j, a))
                   => last.source[a].cands = last.source[j].cands

\* C27: every _navigate on the shared page makes no load when the page is
\* already at the target and exactly one load when it is anywhere else,
\* whatever navigations came before it.
C27_LoadsIffNotAtTarget ==
    \A i \in 1..Len(last.navs) :
        last.navs[i].loads = IF last.navs[i].from = last.navs[i].to THEN 0 ELSE 1

\* a second call on the client that went to the page of the first call
\* without a load
C27_Witness ==
    /\ nOps = 2
    /\ last.op = "get_holds"
    /\ last.outcome = "ok"
    /\ last.navs = <<[from |-> HoldsPath, to |-> HoldsPath, loads |-> 0]>>
    /\ last.loads = 0

\* C28: a renew_item call in headless mode returns success only if the
\* origin showed a success indicator in answer to the call's own click; an
\* indicator left on the page by an earlier renewal is not reported.
C28_SuccessOnlyFromOwnClick ==
    (last.op = "renew_item" /\ headless /\ last.outcome = "ok"
     /\ last.results[1].success)
        => last.clicks = 1 /\ last.shown

\* C29: in interactive mode, once a login call has returned True, the HTTP
\* client that the later request-channel calls use carries the cookie set
\* of that login: a client built with another cookie set is not kept.
C29_ClientCarriesCookiesOfLogin ==
    (~headless /\ authenticated /\ _http_client # NoClient)
        => _http_client = cookies

\* C30: whatever the two files contain, login(force=False) without a usable
\* cache goes on to the login flow of its mode (in headless mode without a
\* snapshot: the guidance error) and does not fail on the files.
C30_UnusableCacheGoesToLoginFlow ==
    (last.op = "login" /\ ~last.force /\ ~last.usable)
        => IF headless /\ ~last.hadState
           THEN last.err = "expired_guidance"
           ELSE last.reauth = 1

====
